---- MODULE Spec2Model ----
(***************************************************************************)
(* A model of Version2/pipInstall2.py: the dependency parser               *)
(* (Dependency.parse, parseVersion), the state resolver                    *)
(* (getFreezeList, getModuleVersion), the decision engine                  *)
(* (parseRequests, processRequests, installModule, getUpdatedVersions)     *)
(* and the result aggregator (sortResults, reportResults, the tail of      *)
(* main).  Texts are sequences of one-character strings.                   *)
(***************************************************************************)
EXTENDS Integers, Sequences, FiniteSets, TLC

(***************************************************************************)
(* Characters and text helpers                                             *)
(***************************************************************************)
UpperSeq == <<"A","B","C","D","E","F","G","H","I","J","K","L","M",
              "N","O","P","Q","R","S","T","U","V","W","X","Y","Z">>
LowerSeq == <<"a","b","c","d","e","f","g","h","i","j","k","l","m",
              "n","o","p","q","r","s","t","u","v","w","x","y","z">>
Digits == {"0","1","2","3","4","5","6","7","8","9"}
Uppers == {UpperSeq[i] : i \in 1..Len(UpperSeq)}
Lowers == {LowerSeq[i] : i \in 1..Len(LowerSeq)}

\* a letter outside ASCII that \w accepts: U+0130, capital I with dot above
CapitalIDot == "\\u0130"
\* U+0307, the combining dot above, which \w does not accept
CombiningDot == "\\u0307"

\* str.lower() on one character: U+0130 becomes "i" followed by U+0307
LowerChar(c) ==
    IF c \in Uppers
    THEN <<LowerSeq[CHOOSE i \in 1..Len(UpperSeq) : UpperSeq[i] = c]>>
    ELSE IF c = CapitalIDot THEN <<"i", CombiningDot>>
    ELSE <<c>>

\* str.lower()
RECURSIVE LowerText(_)
LowerText(s) ==
    IF s = << >> THEN << >> ELSE LowerChar(s[1]) \o LowerText(Tail(s))

\* str.replace(a, b) for one-character a and b
ReplaceChar(s, a, b) == [i \in 1..Len(s) |-> IF s[i] = a THEN b ELSE s[i]]

\* s[i:j] with 1-based inclusive bounds; empty when j < i
Slice(s, i, j) == IF j < i THEN << >> ELSE SubSeq(s, i, j)

\* whether sub occurs at position i of s
OccursAt(sub, s, i) ==
    /\ i + Len(sub) - 1 <= Len(s)
    /\ \A k \in 1..Len(sub) : s[i + k - 1] = sub[k]

\* Python's  sub in s  on str
Contains(sub, s) == \E i \in 1..(Len(s) + 1) : OccursAt(sub, s, i)

\* ',' in request
HasComma(s) == \E i \in 1..Len(s) : s[i] = ","

\* the characters of the regex class \w
WordChars == Uppers \cup Lowers \cup Digits \cup {"_", CapitalIDot}

\* the characters of the regex class [\w\-_\[\]]
NameChars == WordChars \cup {"-", "_", "[", "]"}

\* the characters of the regex class [-_.]
SepChars == {"-", "_", "."}

\* re.sub(r"[-_.]+", "-", name).lower()
RECURSIVE CollapseSeps(_)
CollapseSeps(s) ==
    IF s = << >> THEN << >>
    ELSE IF s[1] \in SepChars
         THEN LET rest == CollapseSeps(Tail(s))
              IN  IF Len(s) > 1 /\ s[2] \in SepChars THEN rest ELSE <<"-">> \o rest
         ELSE <<s[1]>> \o CollapseSeps(Tail(s))

Canonical(name) == LowerText(CollapseSeps(name))

(***************************************************************************)
(* Dependency.regex, matched the way re.findall matches it: a sub-pattern  *)
(* maps a position (index of the next character to read) to the set of     *)
(* positions it can end at.  Texts hold no line break.                     *)
(***************************************************************************)
\* F applied to the value of v (v is evaluated once)
With(v, F(_)) == CHOOSE r \in {F(x) : x \in {v}} : TRUE

\* sub-pattern Stage applied after each of the positions P
Then(s, P, Stage(_, _)) == UNION {Stage(s, p) : p \in P}

\* \d+
DigitEnds(s, p) ==
    {q \in (p + 1)..(Len(s) + 1) : \A k \in p..(q - 1) : s[k] \in Digits}

\* a literal
LitEnds(s, p, lit) == IF OccursAt(lit, s, p) THEN {p + Len(lit)} ELSE {}

\* (\d+!)?
EpochEnds(s, p) ==
    {p} \cup Then(s, DigitEnds(s, p), LAMBDA t, q : LitEnds(t, q, <<"!">>))

\* (\.\d+)*
RECURSIVE MinorEnds(_, _)
MinorEnds(s, p) ==
    {p} \cup Then(s, Then(s, LitEnds(s, p, <<".">>), DigitEnds), MinorEnds)

\* (-?(a|b|rc)\d+)?
PreEnds(s, p) ==
    {p} \cup Then(s,
                Then(s, {p} \cup LitEnds(s, p, <<"-">>),
                     LAMBDA t, q : LitEnds(t, q, <<"a">>) \cup LitEnds(t, q, <<"b">>)
                                      \cup LitEnds(t, q, <<"r","c">>)),
                DigitEnds)

\* (\.post\d+)?
PostEnds(s, p) ==
    {p} \cup Then(s, LitEnds(s, p, <<".","p","o","s","t">>), DigitEnds)

\* (\.dev\d+)?
DevEnds(s, p) ==
    {p} \cup Then(s, LitEnds(s, p, <<".","d","e","v">>), DigitEnds)

\* (\d+!)?(\d)+(\.\d+)*(-?(a|b|rc)\d+)?(\.post\d+)?(\.dev\d+)?  from position p
VersionEnds(s, p) ==
    Then(s, Then(s, Then(s, Then(s, Then(s, Then(s, {p},
        EpochEnds), DigitEnds), MinorEnds), PreEnds), PostEnds), DevEnds)

\* the version pattern matches s[p..] up to the closing $
IsVersionFrom(s, p) == (Len(s) + 1) \in VersionEnds(s, p)

\* (==|~=|>=|<=|>|<), in the order the alternation tries them
Comparators == << <<"=","=">>, <<"~","=">>, <<">","=">>, <<"<","=">>, <<">">>, <<"<">> >>

\* length of the longest prefix of s made of [\w\-_\[\]]
RECURSIVE NameLen(_)
NameLen(s) ==
    IF s # << >> /\ s[1] \in NameChars THEN 1 + NameLen(Tail(s)) ELSE 0

\* the comparators that, at position p, are followed by a version up to $
ComparatorsAt(s, p) ==
    {i \in 1..Len(Comparators) :
        /\ OccursAt(Comparators[i], s, p)
        /\ IsVersionFrom(s, p + Len(Comparators[i]))}

GitPrefix == <<"g","i","t","+">>

NoGroups ==
    [matched |-> FALSE, PYPI |-> << >>, PACKAGE_NAME |-> << >>,
     COMPARATOR |-> << >>, VERSION |-> << >>, GIT |-> << >>]

\* the groups re.findall(cls.regex, text) yields, [matched |-> FALSE] for []
RegexGroups(text) ==
    With(NameLen(text), LAMBDA n :
        IF n > 0 /\ n = Len(text)
        THEN [NoGroups EXCEPT !.matched = TRUE, !.PYPI = text,
                              !.PACKAGE_NAME = text]
        ELSE With(IF n > 0 THEN ComparatorsAt(text, n + 1) ELSE {}, LAMBDA cs :
            IF cs # {}
            THEN With(Comparators[CHOOSE i \in cs : \A j \in cs : i <= j], LAMBDA c :
                    [NoGroups EXCEPT !.matched = TRUE, !.PYPI = text,
                        !.PACKAGE_NAME = SubSeq(text, 1, n),
                        !.COMPARATOR = c,
                        !.VERSION = Slice(text, n + Len(c) + 1, Len(text))])
            ELSE IF OccursAt(GitPrefix, text, 1)
            THEN [NoGroups EXCEPT !.matched = TRUE, !.GIT = text]
            ELSE NoGroups))

\* Python's None for Dependency.comparator / Dependency.version
PyNone == <<"\\None">>

\* Dependency.parse: [ok |-> FALSE] stands for the returned None
DependencyParse(text) ==
    With(RegexGroups(text), LAMBDA g :
        IF ~g.matched
        THEN [ok |-> FALSE, type |-> "NONE", package |-> << >>,
              comparator |-> PyNone, version |-> PyNone]
        ELSE IF g.PYPI # << >>
        THEN [ok |-> TRUE, type |-> "PYPI",
              package |-> Canonical(g.PACKAGE_NAME),
              comparator |-> IF g.COMPARATOR = <<"~","=">>
                             THEN <<">","=">> ELSE g.COMPARATOR,
              version |-> g.VERSION]
        ELSE [ok |-> TRUE, type |-> "GIT", package |-> g.GIT,
              comparator |-> PyNone, version |-> PyNone])

\* Dependency.uri
DependencyUri(dep) ==
    LET package    == dep.package
        comparator == IF dep.comparator = PyNone THEN << >> ELSE dep.comparator
        version    == IF dep.version = PyNone THEN << >> ELSE dep.version
    IN  package \o comparator \o version

\* ExitCodes
SUCCESS == 0
MANIFEST_DOES_NOT_EXIST == 2
PLUGIN_DOES_NOT_EXIST == 4
UNSUPPORTED_CONDITIONAL == 5
PROBLEM_CREATING_VENV == 6
MANIFEST_ERROR == 7
PIP_LIST_ERROR == 8
FAILED_TO_INSTALL_MODULE == 10
INVALID_DEPENDENCY == 11
PYTHON_SITE_ERROR == 12

\* the text 'None' that parseVersion and getModuleVersion use for "absent"
NoneText == <<"N","o","n","e">>

\* parseVersion without the comma test of lines 381-383
parseVersionNoCommaTest(request) ==
    With(DependencyParse(request), LAMBDA dep :
        IF ~dep.ok
        THEN [exit |-> <<INVALID_DEPENDENCY>>, parseCalled |-> TRUE,
              package |-> << >>, comparator |-> << >>, version |-> << >>]
        ELSE IF dep.comparator = PyNone \/ dep.comparator = << >>
        THEN [exit |-> << >>, parseCalled |-> TRUE, package |-> dep.package,
              comparator |-> NoneText, version |-> << >>]
        ELSE [exit |-> << >>, parseCalled |-> TRUE, package |-> dep.package,
              comparator |-> dep.comparator, version |-> dep.version])

\* parseVersion with the comma test moved after Dependency.parse
parseVersionCommaTestLast(request) ==
    With(DependencyParse(request), LAMBDA dep :
        IF ~dep.ok
        THEN [exit |-> <<INVALID_DEPENDENCY>>, parseCalled |-> TRUE,
              package |-> << >>, comparator |-> << >>, version |-> << >>]
        ELSE IF HasComma(request)
        THEN [exit |-> <<UNSUPPORTED_CONDITIONAL>>, parseCalled |-> TRUE,
              package |-> << >>, comparator |-> << >>, version |-> << >>]
        ELSE IF dep.comparator = PyNone \/ dep.comparator = << >>
        THEN [exit |-> << >>, parseCalled |-> TRUE, package |-> dep.package,
              comparator |-> NoneText, version |-> << >>]
        ELSE [exit |-> << >>, parseCalled |-> TRUE, package |-> dep.package,
              comparator |-> dep.comparator, version |-> dep.version])

\* parseVersion: exit is << >> when it returns, <<code>> when it calls shutDown;
\* parseCalled tells whether Dependency.parse was reached
parseVersion(request) ==
    IF HasComma(request)
    THEN [exit |-> <<UNSUPPORTED_CONDITIONAL>>, parseCalled |-> FALSE,
          package |-> << >>, comparator |-> << >>, version |-> << >>]
    ELSE With(DependencyParse(request), LAMBDA dep :
             IF ~dep.ok
             THEN [exit |-> <<INVALID_DEPENDENCY>>, parseCalled |-> TRUE,
                   package |-> << >>, comparator |-> << >>, version |-> << >>]
             ELSE IF dep.comparator = PyNone \/ dep.comparator = << >>
             THEN [exit |-> << >>, parseCalled |-> TRUE, package |-> dep.package,
                   comparator |-> NoneText, version |-> << >>]
             ELSE [exit |-> << >>, parseCalled |-> TRUE, package |-> dep.package,
                   comparator |-> dep.comparator, version |-> dep.version])

(***************************************************************************)
(* The state resolver.  The frozen listing is a sequence of lines.         *)
(***************************************************************************)
\* modType
BUILTIN == "Builtin"
INSTALLEDWITHVERSION == "already Installed with version"
INSTALLEDNOVERSION == "already Installed no Version"
PIPWITHVERSION == "Pip with Version"
PIPNOVERSION == "Pip no Version"
NOTINSTALLED == "Not Installed"

\* getFreezeList's normalisation: request.lower().replace('-', '_')
NormaliseFreeze(raw) ==
    [i \in 1..Len(raw) |-> ReplaceChar(LowerText(raw[i]), "-", "_")]

\* cm in freezeList
InFreezeList(cm, freezeLines) ==
    \E i \in 1..Len(freezeLines) : Contains(cm, freezeLines[i])

\* cm read as a regular expression (it is interpolated unescaped): the atom
\* starting at pat[i] is a class [...] or one character, and '+' after it repeats
\* it.  Of the metacharacters only '[', ']' and '+' are interpreted here, and a
\* class is the set of the characters written in it.
ClassEnd(pat, i) ==
    IF pat[i] = "[" /\ \E j \in (i + 2)..Len(pat) : pat[j] = "]"
    THEN CHOOSE j \in (i + 2)..Len(pat) :
            pat[j] = "]" /\ \A k \in (i + 2)..(j - 1) : pat[k] # "]"
    ELSE i

\* whether the atom pat[i..e] accepts the character c
AtomAccepts(pat, i, e, c) ==
    IF e > i THEN \E k \in (i + 1)..(e - 1) : pat[k] = c ELSE pat[i] = c

\* the positions pat[i..] can end at when it starts at position p of line
RECURSIVE PatternEnds(_, _, _, _)
PatternEnds(pat, i, line, p) ==
    IF i > Len(pat) THEN {p}
    ELSE UNION {
           IF e < Len(pat) /\ pat[e + 1] = "+"
           THEN UNION {PatternEnds(pat, e + 2, line, q) :
                         q \in {x \in (p + 1)..(Len(line) + 1) :
                                  \A k \in p..(x - 1) :
                                      AtomAccepts(pat, i, e, line[k])}}
           ELSE IF p <= Len(line) /\ AtomAccepts(pat, i, e, line[p])
                THEN PatternEnds(pat, e + 1, line, p + 1)
                ELSE {}
           : e \in {ClassEnd(pat, i)}}

\* the group (.+) of  ^{cm}==(.+)$  on one line, << >> when the line does not match
LineVersion(cm, line) ==
    With({e \in PatternEnds(cm, 1, line, 1) :
             OccursAt(<<"=","=">>, line, e) /\ e + 2 <= Len(line)},
         LAMBDA ends :
            IF ends = {} THEN << >>
            ELSE SubSeq(line, (CHOOSE x \in ends : \A y \in ends : y <= x) + 2,
                        Len(line)))

\* re.findall(regex, freezeList, flags=re.MULTILINE): the groups of the matching lines
FindVersions(cm, freezeLines) ==
    With([i \in 1..Len(freezeLines) |-> LineVersion(cm, freezeLines[i])],
         LAMBDA vs : SelectSeq(vs, LAMBDA v : v # << >>))

\* sys.builtin_module_names, as far as the manifests of the model name them
BuiltinModuleNames == { <<"s","y","s">> }

\* what runsubprocess returns for the import test script:
\*   kind "False"     : runsubprocess returned False
\*   kind "Line"      : a text whose last line is "<result>, <resultType>"
\*   kind "Malformed" : a text whose last line has no comma (last_line[1] raises)
ProbeFalse == [kind |-> "False", result |-> << >>, resultType |-> ""]
ProbeMalformed == [kind |-> "Malformed", result |-> << >>, resultType |-> ""]
ProbeLine(result, resultType) ==
    [kind |-> "Line", result |-> result, resultType |-> resultType]

\* getModuleVersion, lines 515-534: the listing probe
ListingProbe(m, freezeLines) ==
    With(Canonical(m), LAMBDA cm :
        IF InFreezeList(cm, freezeLines)
        THEN With(FindVersions(cm, freezeLines), LAMBDA result :
                 IF result # << >> /\ result[1] # << >>
                 THEN [version |-> result[1], type |-> PIPWITHVERSION]
                 ELSE [version |-> NoneText, type |-> PIPNOVERSION])
        ELSE [version |-> NoneText, type |-> NOTINSTALLED])

\* getModuleVersion with the listing probe ahead of the import probe
getModuleVersionListingFirst(m, probe, freezeLines) ==
    IF m \in BuiltinModuleNames
    THEN [raised |-> FALSE, version |-> NoneText, type |-> BUILTIN,
          probeRun |-> FALSE, listingUsed |-> FALSE]
    ELSE With(ListingProbe(m, freezeLines), LAMBDA l :
            IF l.type # NOTINSTALLED
            THEN [raised |-> FALSE, version |-> l.version, type |-> l.type,
                  probeRun |-> FALSE, listingUsed |-> TRUE]
            ELSE IF probe.kind = "Malformed"
            THEN [raised |-> TRUE, version |-> NoneText, type |-> NOTINSTALLED,
                  probeRun |-> TRUE, listingUsed |-> TRUE]
            ELSE IF probe.kind = "Line" /\ probe.resultType = "INSTALLEDWITHVERSION"
            THEN [raised |-> FALSE, version |-> probe.result,
                  type |-> INSTALLEDWITHVERSION,
                  probeRun |-> TRUE, listingUsed |-> TRUE]
            ELSE IF probe.kind = "Line" /\ probe.resultType = "INSTALLEDNOVERSION"
            THEN [raised |-> FALSE, version |-> NoneText,
                  type |-> INSTALLEDNOVERSION,
                  probeRun |-> TRUE, listingUsed |-> TRUE]
            ELSE [raised |-> FALSE, version |-> l.version, type |-> l.type,
                  probeRun |-> TRUE, listingUsed |-> TRUE])

\* getModuleVersion(m, pythonFile, sitePath, freezeList); probe is what the
\* import test subprocess answers for m.  raised: an uncaught IndexError.
getModuleVersion(m, probe, freezeLines) ==
    IF m \in BuiltinModuleNames
    THEN [raised |-> FALSE, version |-> NoneText, type |-> BUILTIN,
          probeRun |-> FALSE, listingUsed |-> FALSE]
    ELSE IF probe.kind = "Malformed"
    THEN [raised |-> TRUE, version |-> NoneText, type |-> NOTINSTALLED,
          probeRun |-> TRUE, listingUsed |-> FALSE]
    ELSE IF probe.kind = "Line" /\ probe.resultType = "INSTALLEDWITHVERSION"
    THEN [raised |-> FALSE, version |-> probe.result, type |-> INSTALLEDWITHVERSION,
          probeRun |-> TRUE, listingUsed |-> FALSE]
    ELSE IF probe.kind = "Line" /\ probe.resultType = "INSTALLEDNOVERSION"
    THEN [raised |-> FALSE, version |-> NoneText, type |-> INSTALLEDNOVERSION,
          probeRun |-> TRUE, listingUsed |-> FALSE]
    ELSE With(ListingProbe(m, freezeLines), LAMBDA l :
            [raised |-> FALSE, version |-> l.version, type |-> l.type,
             probeRun |-> TRUE, listingUsed |-> TRUE])

(***************************************************************************)
(* Bounds and the inputs of a run                                          *)
(***************************************************************************)
\* longest expanded manifest list
MaxEntries == 2

T_sys == <<"s","y","s">>
T_flask == <<"f","l","a","s","k">>
T_git == <<"g","i","t","+","x">>
T_v2 == <<"2",".","0">>
T_v3 == <<"3",".","0">>

\* manifest entries: sys, sys==1, flask, Flask~=2.0, git+x, git+x,y, a==1,b and a=1
ManifestSamples ==
    { T_sys,
      <<"s","y","s","=","=","1">>,
      T_flask,
      <<"F","l","a","s","k","~","=","2",".","0">>,
      T_git,
      <<"g","i","t","+","x",",","y">>,
      <<"a","=","=","1",",","b">>,
      <<"a","=","1">> }

RECURSIVE SeqsUpTo(_, _)
SeqsUpTo(S, n) ==
    IF n = 0 THEN { << >> }
    ELSE LET shorter == SeqsUpTo(S, n - 1)
         IN  shorter \cup {Append(q, x) : q \in {r \in shorter : Len(r) = n - 1}, x \in S}

\* the module names the import test script can be asked about
ProbeNames == {T_flask, T_git}

ProbeNotInstalled == ProbeLine(<<"n","o">>, "NOTINSTALLED")

\* answers of the import test script for a registry module
RegistryProbes ==
    { ProbeNotInstalled,
      ProbeLine(T_v2, "INSTALLEDWITHVERSION"),
      ProbeLine(T_v3, "INSTALLEDWITHVERSION"),
      ProbeLine(<<"n","o">>, "INSTALLEDNOVERSION"),
      ProbeFalse,
      ProbeMalformed }

\* answers of the import test script for a git+ uri
GitProbes == { ProbeNotInstalled, ProbeLine(T_v2, "INSTALLEDWITHVERSION") }

\* raw outputs of pip freeze: pip==24.0 alone, with Flask==2.0, with Flask-Cors==1.0
PipClean == << <<"p","i","p","=","=","2","4",".","0">> >>
PipSamples ==
    { PipClean,
      Append(PipClean, <<"F","l","a","s","k","=","=","2",".","0">>),
      Append(PipClean, <<"F","l","a","s","k","-","C","o","r","s","=","=","1",".","0">>) }

\* the flag that getModuleList takes off the front of the dependency list
VerboseFlag == <<"-","-","v","e","r","b","o","s","e">>

\* what the manifest file holds: text json.load rejects, a JSON array, or a JSON
\* object with or without the keys MANIFEST_KEY and NAME_KEY
ManifestBadJson == [kind |-> "BadJson", hasKey |-> FALSE, hasName |-> FALSE,
                    list |-> << >>]
ManifestArray == [kind |-> "Array", hasKey |-> FALSE, hasName |-> FALSE,
                  list |-> << >>]
ManifestObject(hasKey, hasName, list) ==
    [kind |-> "Object", hasKey |-> hasKey, hasName |-> hasName,
     list |-> IF hasKey THEN list ELSE << >>]

\* the requirements file <pluginPath>/dsf/reqs.txt when it does not exist
NoFile == [exists |-> FALSE, lines |-> << >>]

\* both -m and -p given on the command line
GoodArgs == [mGiven |-> TRUE, pGiven |-> TRUE]

\* a machine on which everything before the manifest is read goes well
GoodHost(manifest, reqFile) ==
    [mIsFile |-> TRUE, pIsDir |-> TRUE, venvOk |-> TRUE, siteOk |-> TRUE,
     manifest |-> manifest, reqFile |-> reqFile]

\* the module names a manifest list asks about
Mentioned(mList) ==
    {parseVersion(mList[i]).package : i \in 1..Len(mList)}

(***************************************************************************)
(* The run: main from line 746 on                                          *)
(***************************************************************************)
VARIABLES
    unit,            \* the call under study when one function is run on its own
    argv,            \* which of -m and -p the command line gives
    host,            \* the machine: the paths, the venv and site commands, the
                     \* manifest file and the requirements file
    logger,          \* whether the global logger exists
    venvCreated,     \* whether the virtual environment was created
    verbose,         \* main's verbose
    pc,              \* where main is
    moduleList,      \* the expanded manifest list
    env,             \* the virtual environment: import test answers, pip freeze output
    freezeList,      \* main's freezeList: [query, lines], query 0 before the first query
    idx,             \* loop index of parseRequests / processRequests / getUpdatedVersions
    moduleRequests,  \* the list of request lists
    builtinList, skippedList, installedList, failedList,
                     \* the result lists, as references (positions) into moduleRequests
    report,          \* the lines reportResults logged
    reported,        \* whether reportResults ran
    exitCode,        \* << >> while running, <<code>> once sys.exit was called
    installCalls,    \* history: the calls of installModule
    parseLog,        \* history: the calls of parseVersion
    resolveLog,      \* history: the calls of getModuleVersion
    freezeLog        \* history: the calls of getFreezeList

vars == <<unit, argv, host, logger, venvCreated, verbose, pc, moduleList, env, freezeList, idx, moduleRequests, builtinList,
          skippedList, installedList, failedList, report, reported, exitCode,
          installCalls, parseLog, resolveLog, freezeLog>>

startup == <<argv, host, logger, venvCreated, verbose>>
lists == <<builtinList, skippedList, installedList, failedList>>
history == <<installCalls, parseLog, resolveLog, freezeLog>>

\* no function is run on its own during a run of main
NoUnit == [step |-> "main"]

Init ==
    /\ unit = NoUnit
    /\ pc = "freeze1"
    /\ moduleList \in SeqsUpTo(ManifestSamples, MaxEntries)
    /\ argv = GoodArgs
    /\ host = GoodHost(ManifestObject(TRUE, TRUE,
                           IF moduleList = << >> THEN <<VerboseFlag>>
                                                 ELSE moduleList), NoFile)
    /\ logger = TRUE
    /\ venvCreated = TRUE
    /\ verbose = (moduleList = << >>)
    /\ env \in {e \in [imp : [ProbeNames -> RegistryProbes], pip : PipSamples] :
                  /\ e.imp[T_git] \in GitProbes
                  /\ \A n \in ProbeNames \ Mentioned(moduleList) :
                        e.imp[n] = ProbeNotInstalled
                  /\ T_flask \notin Mentioned(moduleList) => e.pip = PipClean}
    /\ freezeList = [query |-> 0, lines |-> << >>]
    /\ idx = 1
    /\ moduleRequests = << >>
    /\ builtinList = << >> /\ skippedList = << >>
    /\ installedList = << >> /\ failedList = << >>
    /\ report = << >>
    /\ reported = FALSE
    /\ exitCode = << >>
    /\ installCalls = << >> /\ parseLog = << >>
    /\ resolveLog = << >> /\ freezeLog = << >>

\* what the import test script answers for module m
Probe(e, m) == IF m \in DOMAIN e.imp THEN e.imp[m] ELSE ProbeNotInstalled

\* shutDown(code)
ShutDown(code) ==
    /\ pc' = "exited"
    /\ exitCode' = <<code>>

\* an exception nobody catches: the interpreter prints the traceback and exits with 1
Raise ==
    /\ pc' = "crashed"
    /\ exitCode' = <<1>>

\* getFreezeList going on with an empty listing when runsubprocess fails
getFreezeListNoExit(ok, e, n) ==
    IF ~ok
    THEN [exit |-> << >>, value |-> [query |-> n, lines |-> << >>]]
    ELSE [exit |-> << >>, value |-> [query |-> n, lines |-> NormaliseFreeze(e.pip)]]

\* getFreezeList(pythonFile): exit is <<PIP_LIST_ERROR>> when runsubprocess fails
getFreezeList(ok, e, n) ==
    IF ~ok
    THEN [exit |-> <<PIP_LIST_ERROR>>, value |-> [query |-> n, lines |-> << >>]]
    ELSE [exit |-> << >>, value |-> [query |-> n, lines |-> NormaliseFreeze(e.pip)]]

\* main, line 750: freezeList = getFreezeList(pythonFile), then parseRequests starts
GetInitialFreezeList ==
    /\ pc = "freeze1"
    /\ \E ok \in BOOLEAN :
        \E f \in {getFreezeList(ok, env, Len(freezeLog) + 1)} :
            /\ freezeLog' = Append(freezeLog, [installs |-> Len(installCalls),
                                               resolves |-> Len(resolveLog),
                                               ok |-> ok])
            /\ IF f.exit # << >>
               THEN /\ ShutDown(f.exit[1])
                    /\ UNCHANGED <<freezeList, idx>>
               ELSE /\ freezeList' = f.value
                    /\ idx' = 1
                    /\ pc' = IF moduleList = << >> THEN "freeze2" ELSE "parse"
                    /\ UNCHANGED exitCode
    /\ UNCHANGED <<unit, startup,
                   moduleList, env, moduleRequests, lists, report, reported,
                   installCalls, parseLog, resolveLog>>

\* a request list: [mod_name, requested_version_comp, requested_version_val,
\*                  current_version, current_type, install_result, install_version]
Request(mod, comp, val, cur_version, cur_type, result, inst_version) ==
    [mod_name |-> mod, requested_version_comp |-> comp,
     requested_version_val |-> val, current_version |-> cur_version,
     current_type |-> cur_type, install_result |-> result,
     install_version |-> inst_version]

\* one loop over the entries that resolves an entry and then installs it
PhaseAfterInterleaved(phase, i, n) ==
    IF phase = "parse" THEN [pc |-> "process", idx |-> i]
    ELSE [pc |-> "parse", idx |-> i + 1]

\* main, lines 751-754: where the run is after iteration i of n of the loop of
\* parseRequests (phase "parse") or of processRequests (phase "process"); each
\* loop runs over all the entries before the next call of main
PhaseAfter(phase, i, n) ==
    IF phase = "parse"
    THEN (IF i = n THEN [pc |-> "process", idx |-> 1]
                   ELSE [pc |-> "parse", idx |-> i + 1])
    ELSE (IF i = n THEN [pc |-> "freeze2", idx |-> 1]
                   ELSE [pc |-> "process", idx |-> i + 1])

\* parseRequests: one iteration of  for module in mList
ParseRequest ==
    /\ pc = "parse"
    /\ idx <= Len(moduleList)
    /\ \E pv \in {parseVersion(moduleList[idx])} :
       \E mv \in {getModuleVersion(pv.package, Probe(env, pv.package),
                                   freezeList.lines)} :
           /\ parseLog' = Append(parseLog, [entry |-> idx,
                                            parseCalled |-> pv.parseCalled,
                                            exit |-> pv.exit])
           /\ IF pv.exit # << >>
              THEN /\ ShutDown(pv.exit[1])
                   /\ UNCHANGED <<idx, moduleRequests, resolveLog>>
              ELSE /\ resolveLog' = Append(resolveLog,
                                      [phase |-> "before", entry |-> idx,
                                       query |-> freezeList.query,
                                       installs |-> Len(installCalls),
                                       probeRun |-> mv.probeRun,
                                       listingUsed |-> mv.listingUsed])
                   /\ IF mv.raised
                      THEN /\ Raise
                           /\ UNCHANGED <<idx, moduleRequests>>
                      ELSE /\ moduleRequests' = Append(moduleRequests,
                                  Request(pv.package, pv.comparator, pv.version,
                                          mv.version, mv.type, "", << >>))
                           /\ idx' = PhaseAfter("parse", idx, Len(moduleList)).idx
                           /\ pc' = PhaseAfter("parse", idx, Len(moduleList)).pc
                           /\ UNCHANGED exitCode
    /\ UNCHANGED <<unit, startup,
                   moduleList, env, freezeList, lists, report, reported,
                   installCalls, freezeLog>>

\* the rules with the Builtin test made to depend on the comparator
NeedInstallBuiltinPinned(current_type, requested_version_comp) ==
    IF (current_type = BUILTIN \/ current_type = INSTALLEDWITHVERSION
        \/ current_type = INSTALLEDNOVERSION)
       /\ requested_version_comp = NoneText
    THEN FALSE
    ELSE TRUE

\* processRequests, lines 576-583: the rules that decide whether to install
NeedInstall(current_type, requested_version_comp) ==
    IF current_type = BUILTIN THEN FALSE
    ELSE IF (current_type = INSTALLEDWITHVERSION \/ current_type = INSTALLEDNOVERSION)
            /\ requested_version_comp = NoneText
    THEN FALSE
    ELSE TRUE

\* processRequests, lines 578-581: the result of a request that is not installed
ResultWithoutInstall(current_type) ==
    IF current_type = BUILTIN THEN "Builtin" ELSE "Skipped"

\* the result of an install attempt with the failure not recorded
ResultOfInstallAlwaysSucceeded(install_ok) == "Succeeded"

\* processRequests, lines 587-591: the result of an install attempt
ResultOfInstall(install_ok) == IF install_ok THEN "Succeeded" ELSE "Failed"

\* the requirement without the comparator and the version
InstallRequestTextNameOnly(mod, comp, val) == mod

\* installModule, lines 538-541: the requirement handed to pip install
InstallRequestText(mod, comp, val) ==
    IF comp # NoneText THEN mod \o comp \o val ELSE mod

\* the version pip installs: the pinned one for ==, the newest one otherwise
InstalledVersion(comp, val) == IF comp = <<"=","=">> THEN val ELSE T_v3

\* the line pip freeze shows for a requirement once it is installed: a registry
\* package under its name, the project of the git+x repository as x
FreezeLineFor(mod, comp, val) ==
    (IF OccursAt(GitPrefix, mod, 1) THEN <<"x">> ELSE mod)
        \o <<"=","=">> \o InstalledVersion(comp, val)

RECURSIVE DropLines(_, _)
DropLines(raw, prefix) ==
    IF raw = << >> THEN << >>
    ELSE (IF OccursAt(prefix, Head(raw), 1) THEN << >> ELSE <<Head(raw)>>)
            \o DropLines(Tail(raw), prefix)

\* what a successful pip install --force-reinstall leaves in the environment
AfterInstall(e, mod, comp, val) ==
    LET line == FreezeLineFor(mod, comp, val)
        name == SubSeq(line, 1, Len(line) - Len(InstalledVersion(comp, val)))
    IN  [pip |-> Append(DropLines(e.pip, name), line),
         imp |-> [n \in DOMAIN e.imp |->
                    IF n = mod /\ ~OccursAt(GitPrefix, mod, 1)
                       /\ e.imp[n].kind = "Line"
                    THEN ProbeLine(InstalledVersion(comp, val), "INSTALLEDWITHVERSION")
                    ELSE e.imp[n]]]

\* installModule(mod, comp, val, pythonFile): pipOk is whether runsubprocess
\* returned something other than False
installModule(pipOk) == pipOk

\* processRequests: one iteration of  for idx, request in enumerate(modulerequests)
ProcessRequest ==
    /\ pc = "process"
    /\ idx <= Len(moduleRequests)
    /\ \E r \in {moduleRequests[idx]} :
       \E need_install \in {NeedInstall(r.current_type, r.requested_version_comp)} :
         \E pipOk \in (IF need_install THEN BOOLEAN ELSE {TRUE}) :
             /\ IF need_install
                THEN /\ installCalls' = Append(installCalls,
                            [entry |-> idx,
                             request |-> InstallRequestText(r.mod_name,
                                            r.requested_version_comp,
                                            r.requested_version_val),
                             upgrade |-> (r.requested_version_comp = NoneText),
                             ok |-> installModule(pipOk)])
                     /\ env' = IF pipOk
                               THEN AfterInstall(env, r.mod_name,
                                        r.requested_version_comp,
                                        r.requested_version_val)
                               ELSE env
                     /\ moduleRequests' = [moduleRequests EXCEPT
                            ![idx].install_result =
                                ResultOfInstall(installModule(pipOk))]
                ELSE /\ moduleRequests' = [moduleRequests EXCEPT
                            ![idx].install_result =
                                ResultWithoutInstall(r.current_type)]
                     /\ UNCHANGED <<installCalls, env>>
             /\ idx' = PhaseAfter("process", idx, Len(moduleRequests)).idx
             /\ pc' = PhaseAfter("process", idx, Len(moduleRequests)).pc
    /\ UNCHANGED <<unit, startup,
                   moduleList, freezeList, lists, report, reported, exitCode,
                   parseLog, resolveLog, freezeLog>>

\* the freezeList of line 750 handed on, the refresh of line 757 lost
UpdatedFreezeListStale(before, after) == before

\* main, line 757: the freezeList that getUpdatedVersions is given
UpdatedFreezeList(before, after) == after

\* main, line 757: freezeList = getFreezeList(pythonFile), then getUpdatedVersions starts
GetUpdatedFreezeList ==
    /\ pc = "freeze2"
    /\ \E ok \in BOOLEAN :
        \E f \in {getFreezeList(ok, env, Len(freezeLog) + 1)} :
            /\ freezeLog' = Append(freezeLog, [installs |-> Len(installCalls),
                                               resolves |-> Len(resolveLog),
                                               ok |-> ok])
            /\ IF f.exit # << >>
               THEN /\ ShutDown(f.exit[1])
                    /\ UNCHANGED <<freezeList, idx>>
               ELSE /\ freezeList' = UpdatedFreezeList(freezeList, f.value)
                    /\ idx' = 1
                    /\ pc' = IF moduleRequests = << >> THEN "sort" ELSE "update"
                    /\ UNCHANGED exitCode
    /\ UNCHANGED <<unit, startup,
                   moduleList, env, moduleRequests, lists, report, reported,
                   installCalls, parseLog, resolveLog>>

\* getUpdatedVersions: one iteration of  for idx, request in enumerate(modulerequests)
GetUpdatedVersion ==
    /\ pc = "update"
    /\ idx <= Len(moduleRequests)
    /\ \E r \in {moduleRequests[idx]} :
       \E mv \in {getModuleVersion(r.mod_name, Probe(env, r.mod_name),
                                   freezeList.lines)} :
           IF r.install_result = "Succeeded"
           THEN /\ resolveLog' = Append(resolveLog,
                                   [phase |-> "after", entry |-> idx,
                                    query |-> freezeList.query,
                                    installs |-> Len(installCalls),
                                    probeRun |-> mv.probeRun,
                                    listingUsed |-> mv.listingUsed])
                /\ IF mv.raised
                   THEN /\ Raise
                        /\ UNCHANGED <<idx, moduleRequests>>
                   ELSE /\ moduleRequests' = [moduleRequests EXCEPT
                               ![idx].install_version = mv.version]
                        /\ idx' = IF idx = Len(moduleRequests) THEN 1 ELSE idx + 1
                        /\ pc' = IF idx = Len(moduleRequests) THEN "sort" ELSE "update"
                        /\ UNCHANGED exitCode
           ELSE /\ moduleRequests' = [moduleRequests EXCEPT
                       ![idx].install_version = NoneText]
                /\ idx' = IF idx = Len(moduleRequests) THEN 1 ELSE idx + 1
                /\ pc' = IF idx = Len(moduleRequests) THEN "sort" ELSE "update"
                /\ UNCHANGED <<exitCode, resolveLog>>
    /\ UNCHANGED <<unit, startup,
                   moduleList, env, freezeList, lists, report, reported,
                   installCalls, parseLog, freezeLog>>

\* sortResults, lines 634-641: the list a request with this install_result goes to
BucketOf(install_result) ==
    IF install_result = "Builtin" THEN "builtin"
    ELSE IF install_result = "Skipped" THEN "skipped"
    ELSE IF install_result = "Succeeded" THEN "installed"
    ELSE "failed"

\* sortResults with  if  in place of the last  elif : whatever is not Succeeded
\* also reaches the  else  branch
RECURSIVE BucketIfForElif(_, _, _)
BucketIfForElif(reqs, bucket, from) ==
    IF from > Len(reqs) THEN << >>
    ELSE (IF BucketOf(reqs[from].install_result) = bucket
             \/ (bucket = "failed" /\ reqs[from].install_result # "Succeeded")
          THEN <<from>> ELSE << >>)
            \o BucketIfForElif(reqs, bucket, from + 1)

\* sortResults with  insert(0, req)  in place of  append(req)
RECURSIVE BucketPrepend(_, _, _)
BucketPrepend(reqs, bucket, from) ==
    IF from > Len(reqs) THEN << >>
    ELSE BucketPrepend(reqs, bucket, from + 1)
            \o (IF BucketOf(reqs[from].install_result) = bucket
                THEN <<from>> ELSE << >>)

\* the references to the requests of reqs[from..] that go to bucket, in loop order
RECURSIVE Bucket(_, _, _)
Bucket(reqs, bucket, from) ==
    IF from > Len(reqs) THEN << >>
    ELSE (IF BucketOf(reqs[from].install_result) = bucket THEN <<from>> ELSE << >>)
            \o Bucket(reqs, bucket, from + 1)

\* sortResults(modulerequests)
SortResults ==
    /\ pc = "sort"
    /\ builtinList' = Bucket(moduleRequests, "builtin", 1)
    /\ skippedList' = Bucket(moduleRequests, "skipped", 1)
    /\ installedList' = Bucket(moduleRequests, "installed", 1)
    /\ failedList' = Bucket(moduleRequests, "failed", 1)
    /\ pc' = "report"
    /\ UNCHANGED <<unit, startup,
                   moduleList, env, freezeList, idx, moduleRequests, report,
                   reported, exitCode, history>>

\* reportResults: 'None' shown as nothing
Blank(text) == IF text = NoneText THEN << >> ELSE text

\* what follows "now" without the test for an unchanged version
NowTextNoReinstalled(current_version, install_version) ==
    IF install_version = NoneText
    THEN [phrase |-> "no Version", version |-> << >>]
    ELSE [phrase |-> "", version |-> install_version]

\* reportResults, lines 678-683: what follows "now" in the line of an installed module
NowText(current_version, install_version) ==
    IF current_version = install_version
    THEN [phrase |-> "Reinstalled with current version", version |-> << >>]
    ELSE IF install_version = NoneText
    THEN [phrase |-> "no Version", version |-> << >>]
    ELSE [phrase |-> "", version |-> install_version]

\* reportResults: the line logged for the request r of one of the four lists
ReportLine(section, r) ==
    IF section = "builtin"
    THEN [section |-> section,
          name |-> r.mod_name \o Blank(r.requested_version_comp)
                              \o r.requested_version_val,
          was_type |-> "", was_version |-> << >>, ending |-> "Ignored",
          now |-> [phrase |-> "", version |-> << >>]]
    ELSE IF section = "skipped"
    THEN [section |-> section, name |-> r.mod_name,
          was_type |-> r.current_type, was_version |-> Blank(r.current_version),
          ending |-> "", now |-> [phrase |-> "", version |-> << >>]]
    ELSE IF section = "installed"
    THEN [section |-> section,
          name |-> r.mod_name \o Blank(r.requested_version_comp)
                              \o r.requested_version_val,
          was_type |-> r.current_type, was_version |-> Blank(r.current_version),
          ending |-> "",
          now |-> NowText(r.current_version, r.install_version)]
    ELSE [section |-> section,
          name |-> r.mod_name \o Blank(r.requested_version_comp)
                              \o r.requested_version_val,
          was_type |-> r.current_type, was_version |-> Blank(r.current_version),
          ending |-> "", now |-> [phrase |-> "", version |-> << >>]]

ReportLines(section, refs) ==
    [k \in 1..Len(refs) |-> ReportLine(section, moduleRequests[refs[k]])]

\* reportResults(builtinList, skippedList, installedList, failedList)
ReportResults ==
    /\ pc = "report"
    /\ report' = ReportLines("builtin", builtinList)
                    \o ReportLines("skipped", skippedList)
                    \o ReportLines("installed", installedList)
                    \o ReportLines("failed", failedList)
    /\ reported' = TRUE
    /\ pc' = "shutdown"
    /\ UNCHANGED <<unit, startup,
                   moduleList, env, freezeList, idx, moduleRequests, lists,
                   exitCode, history>>

\* the exit code with the test of line 773 lost
FinalExitCodeAlwaysSuccess(failed) == SUCCESS

\* main, lines 773-782: the exit code after the report
FinalExitCode(failed) ==
    IF Len(failed) > 0 THEN FAILED_TO_INSTALL_MODULE ELSE SUCCESS

\* main, lines 773-782
FinalShutDown ==
    /\ pc = "shutdown"
    /\ ShutDown(FinalExitCode(failedList))
    /\ UNCHANGED <<unit, startup,
                   moduleList, env, freezeList, idx, moduleRequests, lists,
                   report, reported, history>>

Next ==
    \/ GetInitialFreezeList
    \/ ParseRequest
    \/ ProcessRequest
    \/ GetUpdatedFreezeList
    \/ GetUpdatedVersion
    \/ SortResults
    \/ ReportResults
    \/ FinalShutDown

Spec == Init /\ [][Next]_vars

(***************************************************************************)
(* The run from the start of main: lines 707-745, then the run above       *)
(***************************************************************************)
T_reqs == <<"r","e","q","s",".","t","x","t">>
TxtSuffix == <<".","t","x","t">>

\* str.endswith
EndsWith(text, suffix) ==
    /\ Len(text) >= Len(suffix)
    /\ SubSeq(text, Len(text) - Len(suffix) + 1, Len(text)) = suffix

\* the characters str.strip() removes
WhiteSpace == {" ", "\t"}

\* str.strip()
Strip(text) ==
    IF \A i \in 1..Len(text) : text[i] \in WhiteSpace THEN << >>
    ELSE SubSeq(text,
                CHOOSE i \in 1..Len(text) :
                    text[i] \notin WhiteSpace
                        /\ \A j \in 1..(i - 1) : text[j] \in WhiteSpace,
                CHOOSE i \in 1..Len(text) :
                    text[i] \notin WhiteSpace
                        /\ \A j \in (i + 1)..Len(text) : text[j] \in WhiteSpace)

\* the loop over the lines of a requirements file with the comment lines kept
RECURSIVE ReadRequirementsKeepComments(_, _)
ReadRequirementsKeepComments(lines, updatedModuleList) ==
    IF lines = << >> THEN updatedModuleList
    ELSE With(Strip(Head(lines)), LAMBDA line :
            ReadRequirementsKeepComments(Tail(lines),
                IF line = << >> THEN updatedModuleList
                ELSE Append(updatedModuleList, line)))

\* checkForRequirementsFiles, lines 461-465: for line in f
RECURSIVE ReadRequirements(_, _)
ReadRequirements(lines, updatedModuleList) ==
    IF lines = << >> THEN updatedModuleList
    ELSE With(Strip(Head(lines)), LAMBDA line :
            ReadRequirements(Tail(lines),
                IF line = << >> \/ line[1] = "#" THEN updatedModuleList
                ELSE Append(updatedModuleList, line)))

\* os.path.isfile(<pluginPath>/dsf/<module>)
IsFile(h, module) == module = T_reqs /\ h.reqFile.exists

\* checkForRequirementsFiles: the loop  for module in moduleList  from entry i on
RECURSIVE RequirementsLoop(_, _, _, _)
RequirementsLoop(mList, h, i, updatedModuleList) ==
    IF i > Len(mList) THEN updatedModuleList
    ELSE RequirementsLoop(mList, h, i + 1,
            IF EndsWith(mList[i], TxtSuffix) /\ IsFile(h, mList[i])
            THEN ReadRequirements(h.reqFile.lines, updatedModuleList)
            ELSE Append(updatedModuleList, mList[i]))

\* checkForRequirementsFiles(moduleList, pluginPath)
checkForRequirementsFiles(mList, h) == RequirementsLoop(mList, h, 1, << >>)

\* getModuleList(mFile): exit is <<MANIFEST_ERROR>> when json.load raises
\* ValueError; raised tells of an exception nobody catches (TypeError on an
\* array, KeyError on a missing key, IndexError on an empty list)
getModuleList(manifest) ==
    IF manifest.kind = "BadJson"
    THEN [exit |-> <<MANIFEST_ERROR>>, raised |-> FALSE, mList |-> << >>,
          verbose |-> FALSE]
    ELSE IF manifest.kind = "Array" \/ ~manifest.hasKey \/ manifest.list = << >>
    THEN [exit |-> << >>, raised |-> TRUE, mList |-> << >>, verbose |-> FALSE]
    ELSE IF ~manifest.hasName
    THEN [exit |-> << >>, raised |-> TRUE, mList |-> << >>, verbose |-> FALSE]
    ELSE IF manifest.list[1] = VerboseFlag
    THEN [exit |-> << >>, raised |-> FALSE, mList |-> Tail(manifest.list),
          verbose |-> TRUE]
    ELSE [exit |-> << >>, raised |-> FALSE, mList |-> manifest.list,
          verbose |-> FALSE]

\* logger.critical(...) followed by shutDown(code): the name logger is looked up
\* first, and NameError is raised when createLogger has not run
LogAndShutDown(code) == IF logger THEN ShutDown(code) ELSE Raise

\* validateParams: args['m'][0] and args['p'][0] raise IndexError on the default []
ValidateParams ==
    /\ pc = "validate"
    /\ IF ~argv.mGiven \/ ~argv.pGiven THEN Raise
       ELSE IF ~host.mIsFile THEN LogAndShutDown(MANIFEST_DOES_NOT_EXIST)
       ELSE IF ~host.pIsDir THEN LogAndShutDown(PLUGIN_DOES_NOT_EXIST)
       ELSE pc' = "logger" /\ UNCHANGED exitCode
    /\ UNCHANGED <<unit, startup, moduleList, env, freezeList, idx, moduleRequests,
                   lists, report, reported, history>>

\* main, line 716: createLogger(progName)
CreateLogger ==
    /\ pc = "logger"
    /\ logger' = TRUE
    /\ pc' = "venv"
    /\ UNCHANGED <<unit, argv, host, venvCreated, verbose, moduleList, env,
                   freezeList, idx, moduleRequests, lists, report, reported,
                   exitCode, history>>

\* main, lines 721-724: createPythonEnv(venvPath), createLogfile
CreatePythonEnv ==
    /\ pc = "venv"
    /\ IF host.venvOk
       THEN venvCreated' = TRUE /\ pc' = "manifest" /\ UNCHANGED exitCode
       ELSE ShutDown(PROBLEM_CREATING_VENV) /\ UNCHANGED venvCreated
    /\ UNCHANGED <<unit, argv, host, logger, verbose, moduleList, env, freezeList,
                   idx, moduleRequests, lists, report, reported, history>>

\* main, lines 727-735: moduleList, verbose, pluginName = getModuleList(manifestFile)
GetModuleList ==
    /\ pc = "manifest"
    /\ \E got \in {getModuleList(host.manifest)} :
          IF got.exit # << >>
          THEN ShutDown(got.exit[1]) /\ UNCHANGED <<moduleList, verbose>>
          ELSE IF got.raised
          THEN Raise /\ UNCHANGED <<moduleList, verbose>>
          ELSE /\ moduleList' = got.mList
               /\ verbose' = got.verbose
               /\ pc' = "reqfiles"
               /\ UNCHANGED exitCode
    /\ UNCHANGED <<unit, argv, host, logger, venvCreated, env, freezeList, idx,
                   moduleRequests, lists, report, reported, history>>

\* main, line 738: moduleList = checkForRequirementsFiles(moduleList, pluginPath)
CheckForRequirementsFiles ==
    /\ pc = "reqfiles"
    /\ moduleList' = checkForRequirementsFiles(moduleList, host)
    /\ pc' = "venvfiles"
    /\ UNCHANGED <<unit, startup, env, freezeList, idx, moduleRequests, lists,
                   report, reported, exitCode, history>>

\* main, lines 741-744: createVenvFiles, createImportTestFile
CreateVenvFiles ==
    /\ pc = "venvfiles"
    /\ IF host.siteOk
       THEN pc' = "freeze1" /\ UNCHANGED exitCode
       ELSE ShutDown(PYTHON_SITE_ERROR)
    /\ UNCHANGED <<unit, startup, moduleList, env, freezeList, idx, moduleRequests,
                   lists, report, reported, history>>

\* the length of the dependency list of a manifest
MaxManifest == 3

\* entries of a manifest: --verbose, flask, reqs.txt
StartEntries == {VerboseFlag, T_flask, T_reqs}

\* dsf/reqs.txt: absent, with a blank line, two comments and two requirements, or
\* with a comment alone
StartFiles ==
    { NoFile,
      [exists |-> TRUE,
       lines |-> << << >>, <<" "," ","#"," ","c">>, <<"#","d">>, <<" ","f","l","a","s","k"," ">>, T_sys >>],
      [exists |-> TRUE, lines |-> << <<"#","c">> >>] }

StartManifests ==
    {ManifestBadJson, ManifestArray}
        \cup {ManifestObject(k, n, l) :
                k \in BOOLEAN, n \in BOOLEAN,
                l \in SeqsUpTo(StartEntries, MaxManifest)}

\* the starts in which something before the manifest goes wrong, and those in
\* which nothing does
BadStarts ==
    {<<a, h>> \in
        [mGiven : BOOLEAN, pGiven : BOOLEAN]
            \X [mIsFile : BOOLEAN, pIsDir : BOOLEAN, venvOk : BOOLEAN,
                siteOk : BOOLEAN,
                manifest : {ManifestObject(TRUE, TRUE, <<T_flask>>)},
                reqFile : {NoFile}] :
        <<a, h>> # <<GoodArgs, GoodHost(h.manifest, h.reqFile)>>}
GoodStarts ==
    {<<GoodArgs, GoodHost(m, f)>> : m \in StartManifests, f \in StartFiles}

StartInit ==
    /\ unit = NoUnit
    /\ pc = "validate"
    /\ \E st \in BadStarts \cup GoodStarts : argv = st[1] /\ host = st[2]
    /\ logger = FALSE
    /\ venvCreated = FALSE
    /\ verbose = FALSE
    /\ moduleList = << >>
    /\ env \in {[imp |-> [n \in ProbeNames |->
                            IF n = T_flask THEN p ELSE ProbeNotInstalled],
                 pip |-> PipClean] :
                  p \in {ProbeNotInstalled, ProbeLine(T_v2, "INSTALLEDWITHVERSION")}}
    /\ freezeList = [query |-> 0, lines |-> << >>]
    /\ idx = 1
    /\ moduleRequests = << >>
    /\ builtinList = << >> /\ skippedList = << >>
    /\ installedList = << >> /\ failedList = << >>
    /\ report = << >>
    /\ reported = FALSE
    /\ exitCode = << >>
    /\ installCalls = << >> /\ parseLog = << >>
    /\ resolveLog = << >> /\ freezeLog = << >>

StartNext ==
    \/ ValidateParams
    \/ CreateLogger
    \/ CreatePythonEnv
    \/ GetModuleList
    \/ CheckForRequirementsFiles
    \/ CreateVenvFiles
    \/ Next

StartSpec == StartInit /\ [][StartNext]_vars

(***************************************************************************)
(* Dependency.parse, Dependency.uri and getModuleVersion run on their own: *)
(* one text is parsed, its uri is parsed again, and the parsed package is  *)
(* resolved against one import test answer and one frozen listing.         *)
(***************************************************************************)
\* names: flask, sys, Py_OpenSSL, py-openssl, A-B_C.D, a_b_c_d, U+0130 x
UnitNames ==
    { <<"f","l","a","s","k">>,
      <<"s","y","s">>,
      <<"P","y","_","O","p","e","n","S","S","L">>,
      <<"p","y","-","o","p","e","n","s","s","l">>,
      <<"A","-","B","_","C",".","D">>,
      <<"a","_","b","_","c","_","d">>,
      <<CapitalIDot,"x">> }

\* extras: none, [Std_X]
UnitExtras == { << >>, <<"[","S","t","d","_","X","]">> }

\* what follows the name: nothing, ==1.0, ~=1.0, >=2.0, <1, ==1!2.0rc1.post2.dev3,
\* and the unacceptable >= and ==1.
UnitTails ==
    { << >>,
      <<"=","=","1",".","0">>,
      <<"~","=","1",".","0">>,
      <<">","=","2",".","0">>,
      <<"<","1">>,
      <<"=","=","1","!","2",".","0","r","c","1",".","p","o","s","t","2",".","d","e","v","3">>,
      <<">","=">>,
      <<"=","=","1",".">> }

\* git+ uris and texts with a comma
UnitOtherTexts ==
    { T_git,
      <<"g","i","t","+","h","t","t","p","s",":","/","/","e",".","c","o","m","/","X","_","y",".","g","i","t">>,
      <<"g","i","t","+","x",",","y">>,
      <<"a","=","=","1",",","b">> }

UnitTexts ==
    {n \o x \o t : n \in UnitNames, x \in UnitExtras, t \in UnitTails}
        \cup UnitOtherTexts

\* answers of the import test script
UnitProbes ==
    { ProbeNotInstalled,
      ProbeLine(T_v2, "INSTALLEDWITHVERSION"),
      ProbeLine(<<"n","o">>, "INSTALLEDNOVERSION"),
      ProbeFalse,
      ProbeMalformed }

\* raw outputs of pip freeze: pip==24.0 alone, and with one more line
UnitListings ==
    { PipClean }
        \cup {Append(PipClean, l) : l \in
                { <<"F","l","a","s","k","=","=","2",".","0">>,
                  <<"F","l","a","s","k","-","C","o","r","s","=","=","1",".","0">>,
                  <<"P","y","_","O","p","e","n","S","S","L","=","=","1",".","0">>,
                  <<"p","y","O","p","e","n","S","S","L","=","=","1",".","0">>,
                  <<"a","-","b","-","c","-","d","=","=","1",".","0">> }}

NoParse == [ok |-> FALSE, type |-> "NONE", package |-> << >>,
            comparator |-> << >>, version |-> << >>]
NoResolve == [raised |-> FALSE, version |-> << >>, type |-> "",
              probeRun |-> FALSE, listingUsed |-> FALSE]

UnitInit ==
    /\ unit \in {[step |-> "start", text |-> t, probe |-> p, raw |-> l,
                  freezeLines |-> << >>, parsed |-> NoParse,
                  reparsed |-> NoParse, resolved |-> NoResolve] :
                    t \in UnitTexts, p \in UnitProbes, l \in UnitListings}
    /\ pc = "unit"
    /\ argv = GoodArgs
    /\ host = GoodHost(ManifestObject(TRUE, TRUE, <<VerboseFlag>>), NoFile)
    /\ logger = TRUE
    /\ venvCreated = TRUE
    /\ verbose = TRUE
    /\ moduleList = << >>
    /\ env = [imp |-> [n \in ProbeNames |-> ProbeNotInstalled], pip |-> PipClean]
    /\ freezeList = [query |-> 0, lines |-> << >>]
    /\ idx = 1
    /\ moduleRequests = << >>
    /\ builtinList = << >> /\ skippedList = << >>
    /\ installedList = << >> /\ failedList = << >>
    /\ report = << >>
    /\ reported = FALSE
    /\ exitCode = << >>
    /\ installCalls = << >> /\ parseLog = << >>
    /\ resolveLog = << >> /\ freezeLog = << >>

UnitRest == <<startup, pc, moduleList, env, freezeList, idx, moduleRequests, lists, report,
              reported, exitCode, history>>

\* dep = Dependency.parse(text)
UnitParse ==
    /\ unit.step = "start"
    /\ unit' = [unit EXCEPT !.step = "parsed", !.parsed = DependencyParse(unit.text)]
    /\ UNCHANGED UnitRest

\* Dependency.parse(dep.uri)
UnitReparse ==
    /\ unit.step = "parsed"
    /\ unit.parsed.ok
    /\ unit' = [unit EXCEPT !.step = "reparsed",
                            !.reparsed = DependencyParse(DependencyUri(unit.parsed))]
    /\ UNCHANGED UnitRest

\* getModuleVersion(dep.package, ..., getFreezeList(...))
UnitResolve ==
    /\ unit.step = "reparsed"
    /\ \E lines \in {NormaliseFreeze(unit.raw)} :
          unit' = [unit EXCEPT !.step = "resolved",
                               !.freezeLines = lines,
                               !.resolved = getModuleVersion(unit.parsed.package,
                                                             unit.probe, lines)]
    /\ UNCHANGED UnitRest

UnitNext == UnitParse \/ UnitReparse \/ UnitResolve

UnitSpec == UnitInit /\ [][UnitNext]_vars

(***************************************************************************)
(* Properties                                                              *)
(***************************************************************************)
Terminated == pc \in {"exited", "crashed"}

\* processRequests has handled entry i
Decided(i) ==
    /\ i \in 1..Len(moduleRequests)
    /\ pc \notin {"freeze1", "parse"}
    /\ pc = "process" => idx > i
    /\ Terminated => Len(freezeLog) = 2

\* installModule was called for entry i
InstallCalledFor(i) == \E k \in 1..Len(installCalls) : installCalls[k].entry = i

\* the entry is a git+ line for the parser
IsGitEntry(text) == ~HasComma(text) /\ DependencyParse(text).type = "GIT"

\* the entry is one parseVersion cannot accept
Unparsable(text) == HasComma(text) \/ ~RegexGroups(text).matched

Outcomes == {"Builtin", "Skipped", "Succeeded", "Failed"}

\* every entry of the manifest has been handled by processRequests, and installModule
\* was called for exactly those that the rules send to it
AllDecided ==
    /\ Len(moduleRequests) = Len(moduleList)
    /\ \A i \in 1..Len(moduleRequests) :
          /\ moduleRequests[i].install_result \in Outcomes
          /\ InstallCalledFor(i) <=>
                ~(moduleRequests[i].current_type = BUILTIN
                  \/ (moduleRequests[i].current_type
                          \in {INSTALLEDWITHVERSION, INSTALLEDNOVERSION}
                      /\ moduleRequests[i].requested_version_comp = NoneText))

\* C1: an entry whose pre-install classification is Builtin is never handed to
\* installModule and, once processRequests has handled it, its result is 'Builtin',
\* with or without a requested comparator and version.
C1_BuiltinNeverInstalled ==
    \A i \in 1..Len(moduleRequests) :
        moduleRequests[i].current_type = BUILTIN =>
            /\ ~InstallCalledFor(i)
            /\ Decided(i) => moduleRequests[i].install_result = "Builtin"

C1_Witness ==
    \E i \in 1..Len(moduleRequests) :
        /\ Decided(i)
        /\ moduleRequests[i].current_type = BUILTIN
        /\ moduleRequests[i].requested_version_comp = <<"=","=">>
        /\ moduleRequests[i].install_result = "Builtin"

\* the classifications by which getModuleVersion reports a module as installed
InstalledTypes ==
    {INSTALLEDWITHVERSION, INSTALLEDNOVERSION, PIPWITHVERSION, PIPNOVERSION}

\* C2: an entry with no comparator whose module getModuleVersion reports as
\* installed, in any of the ways it can report that, is Skipped and is never handed
\* to installModule.
C2_InstalledUnpinnedSkipped ==
    \A i \in 1..Len(moduleRequests) :
        (/\ moduleRequests[i].requested_version_comp = NoneText
         /\ moduleRequests[i].current_type \in InstalledTypes) =>
            /\ ~InstallCalledFor(i)
            /\ Decided(i) => moduleRequests[i].install_result = "Skipped"

\* C3: a failed install is recorded as Failed for its entry and does not end the
\* run: when the run ends or reports, every entry has been decided and every entry
\* the rules send to installModule has had its install attempt.
C3_FailureDoesNotStopRun ==
    (\E k \in 1..Len(installCalls) : ~installCalls[k].ok) =>
        /\ \A k \in 1..Len(installCalls) :
              ~installCalls[k].ok =>
                  moduleRequests[installCalls[k].entry].install_result = "Failed"
        /\ (Terminated \/ reported) => AllDecided
        /\ pc = "process" => idx > installCalls[Len(installCalls)].entry

C3_Witness ==
    /\ reported
    /\ \E k \in 1..Len(installCalls) :
          /\ ~installCalls[k].ok
          /\ \E j \in (k + 1)..Len(installCalls) :
                installCalls[j].entry > installCalls[k].entry

\* how often the request at position i is referenced by a result list
Occurrences(list, i) == Cardinality({k \in 1..Len(list) : list[k] = i})

Sorted == pc \in {"report", "shutdown"} \/ reported

\* C4: after sortResults every request is in exactly one of the four lists, exactly
\* once, and the lists hold nothing else.
C4_ListsPartitionRequests ==
    Sorted =>
        /\ \A i \in 1..Len(moduleRequests) :
              Occurrences(builtinList, i) + Occurrences(skippedList, i)
                + Occurrences(installedList, i) + Occurrences(failedList, i) = 1
        /\ Len(builtinList) + Len(skippedList) + Len(installedList)
              + Len(failedList) = Len(moduleRequests)

C4_Witness ==
    /\ Sorted
    /\ Len(moduleRequests) = MaxEntries
    /\ Len(builtinList) = 1
    /\ Len(failedList) = 1

\* C5: a run that has reported exits with SUCCESS exactly when no request has the
\* result Failed, and with FAILED_TO_INSTALL_MODULE otherwise.
C5_ExitCodeTellsFailure ==
    (pc = "exited" /\ reported) =>
        IF \E i \in 1..Len(moduleRequests) :
               moduleRequests[i].install_result = "Failed"
        THEN exitCode = <<FAILED_TO_INSTALL_MODULE>>
        ELSE exitCode = <<SUCCESS>>

C5_Witness ==
    /\ pc = "exited" /\ reported
    /\ exitCode = <<FAILED_TO_INSTALL_MODULE>>
    /\ \E i \in 1..Len(moduleRequests) : moduleRequests[i].install_result = "Succeeded"

\* C6: when an entry of the manifest list cannot be parsed (no grammar match, or a
\* comma), installModule is called for no entry, nothing is reported, the run never
\* gets past parseRequests and it ends with a non-zero exit code.
C6_UnparsableEntryStopsRun ==
    (\E i \in 1..Len(moduleList) : Unparsable(moduleList[i])) =>
        /\ installCalls = << >>
        /\ ~reported
        /\ pc \in {"freeze1", "parse", "exited", "crashed"}
        /\ pc = "parse" => \E i \in idx..Len(moduleList) : Unparsable(moduleList[i])
        /\ Terminated =>
              exitCode \in { <<UNSUPPORTED_CONDITIONAL>>, <<INVALID_DEPENDENCY>>,
                             <<PIP_LIST_ERROR>>, <<1>> }

C6_Witness ==
    /\ pc = "exited"
    /\ Len(moduleList) = MaxEntries
    /\ IsGitEntry(moduleList[1])
    /\ Unparsable(moduleList[Len(moduleList)])
    /\ moduleRequests # << >>
    /\ exitCode = <<INVALID_DEPENDENCY>>

\* C7: parseVersion ends the run with UNSUPPORTED_CONDITIONAL for every text with a
\* comma, without calling Dependency.parse, also when the text matches the grammar;
\* a text without comma that fails the grammar ends it with INVALID_DEPENDENCY.
C7_CommaRejectedFirst ==
    \A k \in 1..Len(parseLog) :
        LET text == moduleList[parseLog[k].entry]
        IN  /\ HasComma(text) =>
                 parseLog[k].exit = <<UNSUPPORTED_CONDITIONAL>>
                    /\ ~parseLog[k].parseCalled
            /\ (~HasComma(text) /\ ~RegexGroups(text).matched) =>
                 parseLog[k].exit = <<INVALID_DEPENDENCY>>
            /\ (~HasComma(text) /\ RegexGroups(text).matched) =>
                 parseLog[k].exit = << >>

C7_Witness ==
    \E k \in 1..Len(parseLog) :
        /\ HasComma(moduleList[parseLog[k].entry])
        /\ RegexGroups(moduleList[parseLog[k].entry]).matched
        /\ parseLog[k].exit = <<UNSUPPORTED_CONDITIONAL>>
        /\ exitCode = <<UNSUPPORTED_CONDITIONAL>>

Increasing(list) == \A a, b \in 1..Len(list) : a < b => list[a] < list[b]

\* C8: the entries are parsed, resolved and installed one at a time in manifest
\* order, request i belongs to entry i, and each result list holds its requests in
\* manifest order.
C8_ManifestOrderKept ==
    /\ \A k \in 1..Len(parseLog) : parseLog[k].entry = k
    /\ \A k \in 1..Len(moduleRequests) :
          moduleRequests[k].mod_name = parseVersion(moduleList[k]).package
    /\ Increasing([k \in 1..Len(installCalls) |-> installCalls[k].entry])
    /\ \A a, b \in 1..Len(resolveLog) :
          (a < b /\ resolveLog[a].phase = resolveLog[b].phase) =>
              resolveLog[a].entry < resolveLog[b].entry
    /\ Increasing(builtinList) /\ Increasing(skippedList)
    /\ Increasing(installedList) /\ Increasing(failedList)

C8_Witness ==
    /\ reported
    /\ Len(installedList) = MaxEntries
    /\ Len(installCalls) = MaxEntries

\* C9: a git+ entry that is not classified Builtin is handed to installModule
\* whatever getModuleVersion resolved for it.
C9_GitAlwaysInstalled ==
    \A i \in 1..Len(moduleRequests) :
        (/\ Decided(i)
         /\ IsGitEntry(moduleList[i])
         /\ moduleRequests[i].current_type # BUILTIN) => InstallCalledFor(i)

\* C10: pip freeze is queried at most twice, exactly twice in a run that reports:
\* first before any state resolution and any install, then after the last install
\* and the last pre-install resolution; pre-install resolutions use the first
\* listing, post-install resolutions the second.
C10_FreezeQueriedTwice ==
    /\ Len(freezeLog) <= 2
    /\ Len(freezeLog) >= 1 => (freezeLog[1].resolves = 0 /\ freezeLog[1].installs = 0)
    /\ Len(freezeLog) = 2 =>
          /\ freezeLog[2].resolves = Len(moduleList)
          /\ freezeLog[2].installs = Len(installCalls)
    /\ reported => Len(freezeLog) = 2
    /\ \A k \in 1..Len(resolveLog) :
          /\ resolveLog[k].phase = "before" => resolveLog[k].query = 1
          /\ resolveLog[k].phase = "after" =>
                 resolveLog[k].query = 2
                    /\ resolveLog[k].installs = Len(installCalls)

C10_Witness ==
    /\ reported
    /\ \E k \in 1..Len(resolveLog) :
          /\ resolveLog[k].phase = "after"
          /\ resolveLog[k].listingUsed
          /\ resolveLog[k].query = 2

(***************************************************************************)
(* getModuleVersion on its own (UnitSpec)                                  *)
(***************************************************************************)
Resolved == unit.step = "resolved"

\* the listing probe gave the answer
ListingDecided == Resolved /\ unit.resolved.listingUsed

\* the canonical name getModuleVersion looks for
UnitCm == Canonical(unit.parsed.package)

\* where the name of a listing line ends: before its first "=="
NameEnd(line) ==
    IF Contains(<<"=","=">>, line)
    THEN (CHOOSE k \in 1..Len(line) :
             /\ OccursAt(<<"=","=">>, line, k)
             /\ \A j \in 1..(k - 1) : ~OccursAt(<<"=","=">>, line, j)) - 1
    ELSE Len(line)

\* the versions of the lines of the listing that read name==version
VersionsOf(name, lines) ==
    {SubSeq(lines[i], Len(name) + 3, Len(lines[i])) :
        i \in {k \in 1..Len(lines) :
                 /\ NameEnd(lines[k]) = Len(name)
                 /\ SubSeq(lines[k], 1, Len(name)) = name
                 /\ NameEnd(lines[k]) < Len(lines[k])}}

\* the versions of the raw lines that list the package cm under any spelling
VersionsOfPackage(cm, raw) ==
    {SubSeq(raw[i], NameEnd(raw[i]) + 3, Len(raw[i])) :
        i \in {k \in 1..Len(raw) :
                 /\ NameEnd(raw[k]) < Len(raw[k])
                 /\ Canonical(SubSeq(raw[k], 1, NameEnd(raw[k]))) = cm}}

\* C11: when the import probe does not report the module as installed and the
\* frozen listing has a line <canonical-name>==<version> with a non-empty version,
\* getModuleVersion returns the classification of a successful import probe,
\* 'already Installed with version', with that version.
C11_ListingVersionIsInstalledWithVersion ==
    ListingDecided =>
        \A v \in VersionsOf(UnitCm, unit.freezeLines) \ { << >> } :
            /\ unit.resolved.type = INSTALLEDWITHVERSION
            /\ unit.resolved.version = v

\* C12: when no line of the frozen listing has the form <canonical-name>==<version>,
\* the listing probe answers NotInstalled.
C12_NoLineIsNotInstalled ==
    (ListingDecided /\ VersionsOf(UnitCm, unit.freezeLines) = {}) =>
        unit.resolved.type = NOTINSTALLED

\* C13: for a requested name whose canonical form contains a separator, a line of
\* pip freeze that lists the same package under any case and separator spelling
\* is matched, and its version is the one reported.
C13_ListingSpellingInsensitive ==
    (ListingDecided /\ Contains(<<"-">>, UnitCm)) =>
        \A v \in VersionsOfPackage(UnitCm, unit.raw) :
            v # << >> => unit.resolved.version = v

\* C14: getModuleVersion resolves in a fixed order: a builtin name is Builtin
\* with neither probe run; otherwise an import probe that reports installed is
\* returned as it is, whatever the listing contains; the listing is consulted
\* only when the import probe reports NotInstalled or returns no text.
C14_ResolutionOrder ==
    Resolved =>
        /\ unit.parsed.package \in BuiltinModuleNames =>
              /\ unit.resolved.type = BUILTIN
              /\ ~unit.resolved.probeRun
              /\ ~unit.resolved.listingUsed
        /\ (/\ unit.parsed.package \notin BuiltinModuleNames
            /\ unit.probe.kind = "Line"
            /\ unit.probe.resultType = "INSTALLEDWITHVERSION") =>
              /\ unit.resolved.type = INSTALLEDWITHVERSION
              /\ unit.resolved.version = unit.probe.result
              /\ unit.resolved.probeRun
              /\ ~unit.resolved.listingUsed
        /\ (/\ unit.parsed.package \notin BuiltinModuleNames
            /\ unit.probe.kind = "Line"
            /\ unit.probe.resultType = "INSTALLEDNOVERSION") =>
              /\ unit.resolved.type = INSTALLEDNOVERSION
              /\ unit.resolved.probeRun
              /\ ~unit.resolved.listingUsed
        /\ unit.resolved.listingUsed =>
              /\ unit.parsed.package \notin BuiltinModuleNames
              /\ unit.resolved.probeRun
              /\ \/ unit.probe.kind = "False"
                 \/ unit.probe.kind = "Line" /\ unit.probe.resultType = "NOTINSTALLED"

\* the import probe reports flask installed while the listing has flask==2.0
C14_Witness ==
    /\ Resolved
    /\ unit.parsed.package = T_flask
    /\ unit.probe = ProbeLine(T_v2, "INSTALLEDWITHVERSION")
    /\ VersionsOf(T_flask, unit.freezeLines) # {}
    /\ unit.resolved.type = INSTALLEDWITHVERSION
    /\ ~unit.resolved.listingUsed

(***************************************************************************)
(* Dependency.parse and Dependency.uri on their own (UnitSpec)             *)
(***************************************************************************)
Parsed == unit.step # "start" /\ unit.parsed.ok
Reparsed == unit.step \in {"reparsed", "resolved"}

\* C15: for every text the parser accepts, parsing the uri of the result succeeds
\* and gives the same uri again.
C15_UriIdempotent ==
    Reparsed =>
        /\ unit.reparsed.ok
        /\ DependencyUri(unit.reparsed) = DependencyUri(unit.parsed)

\* the name as written in the text, extras included
WrittenName == RegexGroups(unit.text).PACKAGE_NAME

\* where the extras of a written name start, 0 when it has none
ExtrasStart(name) ==
    IF \E k \in 1..Len(name) : name[k] = "["
    THEN CHOOSE k \in 1..Len(name) :
            name[k] = "[" /\ \A j \in 1..(k - 1) : name[j] # "["
    ELSE 0

\* C16: for a registry line name[extras] the parsed package is the canonical form
\* of the base name followed by the bracketed extras exactly as written.
C16_ExtrasVerbatim ==
    (Parsed /\ unit.parsed.type = "PYPI" /\ ExtrasStart(WrittenName) > 0) =>
        unit.parsed.package =
            Canonical(SubSeq(WrittenName, 1, ExtrasStart(WrittenName) - 1))
                \o SubSeq(WrittenName, ExtrasStart(WrittenName), Len(WrittenName))

\* name with each separator character written as sep
ReplaceSeps(name, sep) ==
    [i \in 1..Len(name) |-> IF name[i] \in SepChars THEN sep ELSE name[i]]

\* C17: canonicalization is idempotent, names that differ only in letter case and
\* in the separators between their parts canonicalize to the same token, and a
\* manifest entry that is such a name is accepted by the parser and yields the
\* canonical token as its package.
C17_CanonicalSpellings ==
    /\ \A n \in UnitNames :
          /\ Canonical(Canonical(n)) = Canonical(n)
          /\ Canonical(LowerText(n)) = Canonical(n)
          /\ \A sep \in SepChars : Canonical(ReplaceSeps(n, sep)) = Canonical(n)
    /\ (unit.step # "start" /\ unit.text \in UnitNames) =>
          /\ unit.parsed.ok
          /\ unit.parsed.package = Canonical(unit.text)

(***************************************************************************)
(* The run of main (Spec), continued                                       *)
(***************************************************************************)
\* C18: the requirement handed to pip install for an entry is the uri of the
\* parsed entry (canonical package, then comparator and version with ~= written
\* as >=, the package alone without a comparator), and when pip succeeds the
\* result of the request is Succeeded.
C18_InstallRequestIsUri ==
    \A k \in 1..Len(installCalls) :
        /\ installCalls[k].request =
              DependencyUri(DependencyParse(moduleList[installCalls[k].entry]))
        /\ installCalls[k].ok =>
              moduleRequests[installCalls[k].entry].install_result = "Succeeded"

\* Flask~=2.0 was installed as flask>=2.0 and pip succeeded
C18_Witness ==
    \E k \in 1..Len(installCalls) :
        /\ moduleList[installCalls[k].entry] =
              <<"F","l","a","s","k","~","=","2",".","0">>
        /\ installCalls[k].request = <<"f","l","a","s","k",">","=","2",".","0">>
        /\ installCalls[k].ok
        /\ moduleRequests[installCalls[k].entry].install_result = "Succeeded"

\* the lines reportResults logged for the installed list
InstalledSection == SelectSeq(report, LAMBDA l : l.section = "installed")

\* the install of request i succeeded and left the version it found
SameVersionReinstall(i) ==
    /\ moduleRequests[i].install_result = "Succeeded"
    /\ moduleRequests[i].install_version = moduleRequests[i].current_version

\* C19: a request whose install succeeded and whose version after the install
\* equals the one before it is in the installed list, not in the skipped list, and
\* its report line says 'Reinstalled with current version'.
C19_SameVersionReportedReinstalled ==
    reported =>
        \A i \in 1..Len(moduleRequests) :
            SameVersionReinstall(i) =>
                /\ Occurrences(skippedList, i) = 0
                /\ \E k \in 1..Len(installedList) :
                      /\ installedList[k] = i
                      /\ InstalledSection[k].now.phrase =
                            "Reinstalled with current version"

\* a reported request that had version 3.0 before and after its install
C19_Witness ==
    /\ reported
    /\ \E i \in 1..Len(moduleRequests) :
          /\ SameVersionReinstall(i)
          /\ moduleRequests[i].current_version = T_v3
          /\ InstallCalledFor(i)

\* C20: whenever a query of pip freeze fails, before the state resolution or
\* after the installs, the run ends with PIP_LIST_ERROR, and no state resolution,
\* install or report happens after the failed query.
C20_FreezeFailureEndsRun ==
    \A k \in 1..Len(freezeLog) :
        ~freezeLog[k].ok =>
            /\ pc = "exited"
            /\ exitCode = <<PIP_LIST_ERROR>>
            /\ k = Len(freezeLog)
            /\ Len(resolveLog) = freezeLog[k].resolves
            /\ Len(installCalls) = freezeLog[k].installs
            /\ ~reported

\* the refresh after an install failed
C20_Witness ==
    /\ Len(freezeLog) = 2
    /\ ~freezeLog[2].ok
    /\ freezeLog[2].installs > 0
    /\ exitCode = <<PIP_LIST_ERROR>>

(***************************************************************************)
(* The start of main (StartSpec)                                           *)
(***************************************************************************)
\* getModuleList has been called
ManifestRead == venvCreated /\ pc # "manifest"

\* nothing was parsed, resolved or installed
NoDependencyTouched ==
    parseLog = << >> /\ resolveLog = << >> /\ installCalls = << >>

\* C21: a manifest that is not well-formed JSON, or that is a JSON object without
\* the key sbcPythonDependencies, ends the run with MANIFEST_ERROR before any
\* dependency is parsed, resolved or installed.
C21_BadManifestIsManifestError ==
    (/\ ManifestRead
     /\ \/ host.manifest.kind = "BadJson"
        \/ host.manifest.kind = "Object" /\ ~host.manifest.hasKey) =>
        /\ pc = "exited"
        /\ exitCode = <<MANIFEST_ERROR>>
        /\ NoDependencyTouched

\* the list getModuleList returned, the argument of checkForRequirementsFiles
ManifestList == getModuleList(host.manifest).mList

\* checkForRequirementsFiles has returned
RequirementsChecked ==
    /\ ManifestRead
    /\ pc # "reqfiles"
    /\ getModuleList(host.manifest).exit = << >>
    /\ ~getModuleList(host.manifest).raised

\* the stripped lines of the requirements file that are neither blank nor comments
KeptLines(h) ==
    SelectSeq([i \in 1..Len(h.reqFile.lines) |-> Strip(h.reqFile.lines[i])],
              LAMBDA l : l # << >> /\ l[1] # "#")

\* what takes the place of one entry
Expansion(entry, h) ==
    IF EndsWith(entry, TxtSuffix) /\ IsFile(h, entry) THEN KeptLines(h)
    ELSE <<entry>>

\* the number of entries in the result before the place of entry i
RECURSIVE Offset(_, _, _)
Offset(mList, h, i) ==
    IF i = 1 THEN 0
    ELSE Offset(mList, h, i - 1) + Len(Expansion(mList[i - 1], h))

\* C22: checkForRequirementsFiles returns the list with every entry that names an
\* existing .txt file replaced, at its place, by the lines of the file in file
\* order without the blank lines and the lines starting with '#'; every other
\* entry is kept as it is and the order of the entries is kept.
C22_RequirementsSpliced ==
    RequirementsChecked =>
        /\ Len(moduleList) = Offset(ManifestList, host, Len(ManifestList) + 1)
        /\ \A i \in 1..Len(ManifestList) :
              \A k \in 1..Len(Expansion(ManifestList[i], host)) :
                  moduleList[Offset(ManifestList, host, i) + k] =
                      Expansion(ManifestList[i], host)[k]

\* flask, reqs.txt, flask became flask, flask, sys, flask
C22_Witness ==
    /\ RequirementsChecked
    /\ ManifestList = <<T_flask, T_reqs, T_flask>>
    /\ Len(host.reqFile.lines) = 5
    /\ moduleList = <<T_flask, T_flask, T_sys, T_flask>>

\* C25: a -m path that is not a file ends the run with MANIFEST_DOES_NOT_EXIST,
\* a -p path that is not a directory with PLUGIN_DOES_NOT_EXIST, both before the
\* virtual environment is created, and no shutDown happens before the logger
\* exists.
C25_ValidationExitCodes ==
    /\ (pc # "validate" /\ argv = GoodArgs /\ ~host.mIsFile) =>
          /\ pc = "exited"
          /\ exitCode = <<MANIFEST_DOES_NOT_EXIST>>
          /\ ~venvCreated
    /\ (pc # "validate" /\ argv = GoodArgs /\ host.mIsFile /\ ~host.pIsDir) =>
          /\ pc = "exited"
          /\ exitCode = <<PLUGIN_DOES_NOT_EXIST>>
          /\ ~venvCreated
    /\ pc = "exited" => logger

\* C26: a well-formed manifest with an empty dependency list is a run with
\* nothing to do: no install is attempted, the four result lists stay empty, the
\* run does not crash, and it ends with SUCCESS unless a later step fails.
C26_EmptyListSucceeds ==
    (/\ ManifestRead
     /\ host.manifest.kind = "Object"
     /\ host.manifest.hasKey /\ host.manifest.hasName
     /\ host.manifest.list = << >>) =>
        /\ pc # "crashed"
        /\ installCalls = << >>
        /\ builtinList = << >> /\ skippedList = << >>
        /\ installedList = << >> /\ failedList = << >>
        /\ (pc = "exited" /\ reported) => exitCode = <<SUCCESS>>

(***************************************************************************)
(* The run of main (Spec): the report and the two phases                   *)
(***************************************************************************)
Reinstalled == "Reinstalled with current version"

\* C23: the line of a Succeeded request says 'Reinstalled with current version'
\* only when the module had a version before the install and has the same one
\* after it; a request that was Not Installed is never reported as reinstalled,
\* and a request without a version after the install reads 'now no Version'.
C23_ReinstalledOnlyWithSameVersion ==
    reported =>
        \A k \in 1..Len(installedList) :
            /\ InstalledSection[k].now.phrase = Reinstalled =>
                  /\ moduleRequests[installedList[k]].current_version # NoneText
                  /\ moduleRequests[installedList[k]].install_version =
                        moduleRequests[installedList[k]].current_version
            /\ moduleRequests[installedList[k]].current_type = NOTINSTALLED =>
                  InstalledSection[k].now.phrase # Reinstalled
            /\ moduleRequests[installedList[k]].install_version = NoneText =>
                  InstalledSection[k].now.phrase = "no Version"

\* C24: every pre-install resolution is made before the first install, so the
\* decision for an entry rests on the state before any install of the run: two
\* entries naming the same package are resolved alike, and when the package is
\* not installed both are passed to installModule.
C24_TwoPhases ==
    /\ \A k \in 1..Len(resolveLog) :
          resolveLog[k].phase = "before" => resolveLog[k].installs = 0
    /\ Len(installCalls) > 0 => Len(moduleRequests) = Len(moduleList)
    /\ \A i, j \in 1..Len(moduleRequests) :
          moduleRequests[i].mod_name = moduleRequests[j].mod_name =>
              /\ moduleRequests[i].current_type = moduleRequests[j].current_type
              /\ moduleRequests[i].current_version =
                    moduleRequests[j].current_version
              /\ (/\ Decided(i) /\ Decided(j)
                  /\ moduleRequests[i].current_type = NOTINSTALLED) =>
                    InstallCalledFor(i) /\ InstallCalledFor(j)

\* flask, flask: not installed, the first install succeeded, the second was made
C24_Witness ==
    /\ moduleList = <<T_flask, T_flask>>
    /\ Len(installCalls) = 2
    /\ installCalls[1].entry = 1 /\ installCalls[1].ok
    /\ installCalls[2].entry = 2
    /\ moduleRequests[2].current_type = NOTINSTALLED

====
